---- MODULE Spec2Model ----
(***************************************************************************)
(* Streaming response orchestration of Stilq (functions/src):              *)
(*   - streamChat            functions/src/index.ts                        *)
(*   - determineModelFromIntent  functions/src/index.ts                    *)
(*   - streamWithRetry, retryWithPro25, streamChatWithRetry                *)
(*                           functions/src/handlers/error-handler.ts       *)
(*   - handleProImageStream  functions/src/handlers/pro-image.ts           *)
(*   - dualUpload            functions/src/utils/image.ts                  *)
(*                                                                         *)
(*   - buildProImageContents functions/src/handlers/pro-image.ts           *)
(*   - verifyAuth            functions/src/utils/auth.ts                   *)
(*   - unifiedUpload, getFileUri  functions/src/index.ts                   *)
(*   - onChatDeleted, extractStoragePath                                   *)
(*                           functions/src/handlers/chat-cleanup.ts        *)
(*   - InputArea             components/InputArea.tsx                      *)
(*                                                                         *)
(* One behaviour of Spec is one POST request to streamChat, unifiedUpload  *)
(* or getFileUri.  Text is a sequence of characters, an upstream stream is *)
(* a sequence of chunks delivered one per step, and `events` is the        *)
(* sequence of SSE events written to the response.  SpecDisconnect is the  *)
(* same turn with a client that may go away, SpecRouter and SpecBuild are  *)
(* the router and the payload on their own, SpecCleanup is one run of      *)
(* onChatDeleted, SpecClient one session of the input area and SpecTemp    *)
(* two uploads on the local disk of one function instance.                 *)
(***************************************************************************)
EXTENDS Integers, Sequences, FiniteSets, TLC

VARIABLES
    pc,               \* position of the request handler
    endpoint,         \* the function the request is sent to
    authHeader,       \* req.headers.authorization
    modelId,          \* req.body.modelId ("undefined" when absent)
    apiKey,           \* process.env.GEMINI_API_KEY is configured
    history,          \* req.body.history
    newMessage,       \* req.body.newMessage
    attachments,      \* req.body.attachments
    fetchOk,          \* which history image URLs fetchImageAsBase64 can fetch
    status,           \* HTTP status of the response, 0 while none is set
    writes,           \* object-storage and file-store writes, in order
    contents,         \* const contents / proImageContents
    selectedModelId,  \* let selectedModelId
    routeFailure,     \* how the router stage failed, "none" if it did not
    events,           \* every res.write() of the turn, in order
    calls,            \* upstream generation calls issued by the turn, in order
    upstream,         \* chunks the current stream has delivered so far
    fullText,         \* let fullText of the running streamWithRetry call
    sentMetadata,     \* let sentMetadata of the running stream handler
    streamLog,        \* finished streamWithRetry calls: chunks and StreamResult
    pendingImage,     \* pro-image: the image whose dualUpload is awaited
    routerText,       \* classifier reply given to determineModelFromIntent
    decision,         \* RouterDecision returned for routerText
    userId,           \* onChatDeleted: event.params.userId
    snapshot,         \* onChatDeleted: the documents of messagesSnapshot
    storagePathsToDelete, \* onChatDeleted: the paths collected for deletion
    storageDeletes,   \* onChatDeleted: storage.file(path).delete() calls
    recordDeletes,    \* onChatDeleted: doc.ref.delete() calls
    connected,        \* streamChat: the client still holds the connection
    input,            \* InputArea: the text of the composer
    uiAttachments,    \* InputArea: const [attachments, setAttachments]
    uploadingIndexes, \* InputArea: const [uploadingIndexes, ...]
    uploads,          \* InputArea: uploadAttachment calls in flight
    sends,            \* InputArea: the calls of onSend
    isLoading,        \* InputArea: the isLoading prop
    nextFile,         \* InputArea: files selected so far
    now,              \* one function instance: Date.now()
    tmpFiles,         \* one function instance: the files under /tmp
    ops               \* one function instance: the uploads it handles

\* what the request and its environment fix
inputs == <<endpoint, authHeader, modelId, apiKey, history, newMessage,
            attachments, fetchOk>>

\* the state of one streamChat turn
turnVars == <<inputs, status, writes, contents, selectedModelId,
              routeFailure, events, calls, upstream, fullText, sentMetadata,
              streamLog, pendingImage, routerText, decision>>

\* the state of one run of onChatDeleted
cleanupVars == <<userId, snapshot, storagePathsToDelete, storageDeletes,
                 recordDeletes>>

\* what the HTTP functions leave alone
\* the state of the input area
clientVars == <<input, uiAttachments, uploadingIndexes, uploads, sends,
                isLoading, nextFile>>

\* the local disk and the uploads of one function instance
tmpVars == <<now, tmpFiles, ops>>

aside == <<cleanupVars, connected, clientVars, tmpVars>>

vars == <<pc, turnVars, aside>>

\* no run of onChatDeleted
CleanupIdle ==
    /\ userId = ""
    /\ snapshot = <<>>
    /\ storagePathsToDelete = <<>>
    /\ storageDeletes = <<>>
    /\ recordDeletes = <<>>

\* an input area nobody touches
ClientIdle ==
    /\ input = <<>>
    /\ uiAttachments = <<>>
    /\ uploadingIndexes = {}
    /\ uploads = {}
    /\ sends = <<>>
    /\ isLoading = FALSE
    /\ nextFile = 0

\* an instance that handles no upload
TmpIdle == now = 0 /\ tmpFiles = {} /\ ops = <<>>

AsideIdle == CleanupIdle /\ connected = TRUE /\ ClientIdle /\ TmpIdle

(***************************************************************************)
(* Bounds                                                                  *)
(***************************************************************************)
\* chunks one upstream stream delivers at most
MaxChunks == 2
\* tokens of a classifier reply at most
MaxReplyLen == 5
\* messages of a history told apart by their text at most
MaxHistory == 51
\* attachments of a request at most
MaxAttachments == 2
\* messages of a history that refers to images at most
MaxImageMessages == 3

(***************************************************************************)
(* Variant identifiers                                                     *)
(***************************************************************************)
FLASH == "gemini-3-flash-preview"
PRO == "gemini-3-pro-preview"
PRO_IMAGE == "gemini-3-pro-image-preview"
PRO25 == "gemini-2.5-pro"
FLASH_LITE == "gemini-2.5-flash-lite"
FLASH_IMAGE == "gemini-2.5-flash-image"
RESEARCH == "research"
AUTO == "auto"
UNDEFINED == "undefined"

\* ChatRequest.modelId: the declared union, or absent
ModelIds == {FLASH, PRO, PRO25, FLASH_LITE, FLASH_IMAGE, PRO_IMAGE, AUTO,
             RESEARCH, UNDEFINED}

(***************************************************************************)
(* Text helpers                                                            *)
(***************************************************************************)
NoText == <<>>

\* white space: blank and line feed
IsSpace(c) == c \in {" ", "\n"}

\* String.prototype.trim(): drop leading and trailing white space
RECURSIVE TrimLeft(_)
TrimLeft(s) ==
    IF s = <<>> THEN <<>>
    ELSE IF IsSpace(Head(s)) THEN TrimLeft(Tail(s)) ELSE s

RECURSIVE TrimRight(_)
TrimRight(s) ==
    IF s = <<>> THEN <<>>
    ELSE IF IsSpace(s[Len(s)]) THEN TrimRight(SubSeq(s, 1, Len(s) - 1)) ELSE s

Trim(s) == TrimRight(TrimLeft(s))

\* concatenation of a sequence of strings
RECURSIVE Join(_)
Join(s) == IF s = <<>> THEN "" ELSE Head(s) \o Join(Tail(s))

(***************************************************************************)
(* Intent router                                                           *)
(***************************************************************************)
\* A classifier reply is a sequence of these pieces of text; "x" is any
\* text that is no piece of an identifier.
RouterTokens == {"gemini-3-pro", "gemini-3-flash", "-image", "-preview", "x"}

\* the regex with the "-preview" suffix left out
RouterAlternatives_NoSuffix == <<
    <<"gemini-3-pro", "-image">>,
    <<"gemini-3-flash">>,
    <<"gemini-3-pro">> >>

\* the alternatives of /gemini-3-(pro-image|flash|pro)-preview/, in order
RouterAlternatives == <<
    <<"gemini-3-pro", "-image", "-preview">>,
    <<"gemini-3-flash", "-preview">>,
    <<"gemini-3-pro", "-preview">> >>

\* does pattern pat occur in text at position i
OccursAt(text, i, pat) ==
    /\ i + Len(pat) - 1 <= Len(text)
    /\ SubSeq(text, i, i + Len(pat) - 1) = pat

\* the alternatives of alts that match at position i
AltsAt(text, i, alts) ==
    { k \in 1..Len(alts) : OccursAt(text, i, alts[k]) }

Min(S) == CHOOSE m \in S : \A n \in S : m <= n

\* text.match(re)[0]: the text matched at the leftmost place a match starts,
\* by the first alternative that matches there; <<>> stands for null
RegexMatch(text, alts) ==
    LET hits == { i \in 1..Len(text) : AltsAt(text, i, alts) # {} }
    IN  IF hits = {} THEN <<>>
        ELSE LET i == Min(hits)
                 k == Min(AltsAt(text, i, alts))
             IN  SubSeq(text, i, i + Len(alts[k]) - 1)

\* determineModelFromIntent: threw says that ai.models.generateContent
\* rejected, text is result.text || "" otherwise
determineModelFromIntent(threw, text) ==
    IF threw
    THEN [targetModel |-> PRO, reasoning |-> "Router error fallback"]
    ELSE LET modelMatch == RegexMatch(text, RouterAlternatives)
         IN  IF modelMatch # <<>>
             THEN [targetModel |-> Join(modelMatch), reasoning |-> "Routed"]
             ELSE [targetModel |-> PRO, reasoning |-> "Default fallback"]

\* the classifier replies of the model: all texts of at most MaxReplyLen tokens
RouterReplies == UNION { [1..n -> RouterTokens] : n \in 0..MaxReplyLen }

(***************************************************************************)
(* Events and upstream chunks                                              *)
(***************************************************************************)
\* one res.write(`data: ${JSON.stringify({...})}\n\n`)
Ev(type, text, model, storageUrl, fileUri) ==
    [type |-> type, text |-> text, model |-> model,
     storageUrl |-> storageUrl, fileUri |-> fileUri]

Plain(type) == Ev(type, NoText, "", FALSE, FALSE)

TextEv(type, text) == Ev(type, text, "", FALSE, FALSE)

\* An upstream chunk: one part of candidates[0].content.parts and the
\* chunk's grounding metadata.  text = <<>> is a part without text; meta is
\* "none" (no groundingMetadata), "noweb" (groundingChunks without a web
\* entry) or "web" (at least one web entry).
Chunk(thought, text, inlineData, codeImage, meta) ==
    [thought |-> thought, text |-> text, inlineData |-> inlineData,
     codeImage |-> codeImage, meta |-> meta]

TextChunk == Chunk(FALSE, <<"a">>, FALSE, FALSE, "none")
SpaceChunk == Chunk(FALSE, <<" ">>, FALSE, FALSE, "none")
ThoughtChunk == Chunk(TRUE, <<"t">>, FALSE, FALSE, "none")
ImageChunk == Chunk(FALSE, NoText, TRUE, FALSE, "none")
ThoughtImageChunk == Chunk(TRUE, NoText, TRUE, FALSE, "none")
CodeImageChunk == Chunk(FALSE, NoText, FALSE, TRUE, "none")
WebChunk == Chunk(FALSE, NoText, FALSE, FALSE, "web")
NoWebChunk == Chunk(FALSE, NoText, FALSE, FALSE, "noweb")

\* what the upstream may deliver to streamWithRetry and to the research loop
ChatChunks == {TextChunk, SpaceChunk, ThoughtChunk, ImageChunk,
               CodeImageChunk, WebChunk}

\* what the upstream may deliver to handleProImageStream
ProImageChunks == {TextChunk, ThoughtChunk, ImageChunk, ThoughtImageChunk,
                   WebChunk, NoWebChunk}

\* metadata.groundingChunks.map(...).filter(s => s !== null).length > 0
HasSources(chunk) == chunk.meta = "web"

\* the sources block shared by the three stream loops: the events written and
\* the new value of sentMetadata
SourcesStep(chunk, sent) ==
    IF chunk.meta # "none" /\ ~sent /\ HasSources(chunk)
    THEN [out |-> <<Plain("sources")>>, sent |-> TRUE]
    ELSE [out |-> <<>>, sent |-> sent]

(***************************************************************************)
(* streamWithRetry, one iteration of its for-await loop                    *)
(***************************************************************************)
\* thought text counted as response text
ChatPartText_ThoughtCounts(chunk) == chunk.text

\* what one part adds to fullText
ChatPartText(chunk) ==
    IF chunk.thought /\ chunk.text # NoText THEN NoText ELSE chunk.text

\* the events one part writes
ChatPartEvents(chunk) ==
    (IF chunk.codeImage THEN <<Plain("image")>> ELSE <<>>)
    \o (IF chunk.inlineData THEN <<Plain("graph")>> ELSE <<>>)
    \o (IF chunk.thought /\ chunk.text # NoText
        THEN <<TextEv("thinking", chunk.text)>>
        ELSE IF chunk.text # NoText
             THEN <<TextEv("text", chunk.text)>>
             ELSE <<>>)

(***************************************************************************)
(* streamChatWithRetry                                                     *)
(***************************************************************************)
\* the retry offered to every model of the regular chat branch
RetryModels_EveryModel == {FLASH, PRO, PRO25, FLASH_LITE}

\* model === "gemini-3-flash-preview" || model === "gemini-3-pro-preview"
RetryModels == {FLASH, PRO}

\* the retry decision taken without regard to which call returned
AfterStream_Chained(stage, text, model, config) ==
    IF Len(Trim(text)) = 0 /\ model \in RetryModels
    THEN IF config = UNDEFINED THEN "typeerror" ELSE "retry"
    ELSE "return"

\* What follows the return of a streamWithRetry call.  stage 1 is the call
\* made by streamChatWithRetry: an empty result of a retry model leads to
\* retryWithPro25, whose argument config.systemInstruction raises a TypeError
\* when config is undefined.  stage 2 is the call made by retryWithPro25,
\* whose result is returned as it is.
AfterStream(stage, text, model, config) ==
    IF stage = 1 /\ Len(Trim(text)) = 0 /\ model \in RetryModels
    THEN IF config = UNDEFINED THEN "typeerror" ELSE "retry"
    ELSE "return"

\* let modelConfig of the regular chat branch
ModelConfig(selected) ==
    IF selected = FLASH THEN "flashConfig"
    ELSE IF selected = PRO THEN "proConfig"
    ELSE IF selected = PRO25 THEN "pro25Config"
    ELSE UNDEFINED

\* selectedModelId || "gemini-3-flash-preview"
ChatModel(selected) == IF selected = UNDEFINED THEN FLASH ELSE selected

(***************************************************************************)
(* The research loop of streamChat and handleProImageStream                *)
(***************************************************************************)
\* the events one part writes in the research loop
ResearchPartEvents(chunk) ==
    IF chunk.thought /\ chunk.text # NoText
    THEN <<TextEv("thinking", chunk.text)>>
    ELSE IF chunk.text # NoText
         THEN <<TextEv("text", chunk.text)>>
         ELSE <<>>

\* the text event handleProImageStream writes for one part
ProImageTextEvents(chunk) ==
    IF chunk.text # NoText THEN <<TextEv("text", chunk.text)>> ELSE <<>>

\* does handleProImageStream start a dual upload for the part
ProImageUploads(chunk) == chunk.inlineData /\ ~chunk.thought

\* dualUpload: Promise.all of the storage write and the file-store write
DualUpload(storageOk, fileApiOk) ==
    IF storageOk /\ fileApiOk
    THEN [threw |-> FALSE, storageUrl |-> TRUE, fileUri |-> TRUE]
    ELSE [threw |-> TRUE, storageUrl |-> FALSE, fileUri |-> FALSE]

\* a failed upload reported as an error
ProImageImageEvent_FailureIsError(upload) ==
    IF upload.threw
    THEN Plain("error")
    ELSE Ev("image", NoText, "", upload.storageUrl, upload.fileUri)

\* the image event written once the upload has settled
ProImageImageEvent(upload) ==
    IF upload.threw
    THEN Ev("image", NoText, "", FALSE, FALSE)
    ELSE Ev("image", NoText, "", upload.storageUrl, upload.fileUri)

\* the catch block of handleProImageStream writing the error and rethrowing
ProImageCatch_Rethrow(evs) == evs \o <<Plain("error"), Plain("error")>>

\* the catch block of handleProImageStream; streamChat ends the response
ProImageCatch(evs) == Append(evs, Plain("error"))

\* the catch block of streamChat
StreamChatCatch(evs) == Append(evs, Plain("error"))

\* the image-generation branch: the events written for response parts
RECURSIVE ImageGenEvents(_)
ImageGenEvents(parts) ==
    IF parts = <<>> THEN <<>>
    ELSE LET part == Head(parts)
         IN  (IF part.inlineData THEN <<Plain("image")>>
              ELSE IF part.text # NoText
                   THEN <<TextEv("text", part.text)>>
                   ELSE <<>>)
             \o ImageGenEvents(Tail(parts))

\* what generateContent may answer in the image-generation branch
ImageResponses ==
    UNION { [1..n -> {ImageChunk, TextChunk}] : n \in 0..MaxChunks }

(***************************************************************************)
(* ChatRequest: history, newMessage, attachments                           *)
(***************************************************************************)
\* an absent name, storageUrl or fileUri, and a cleared data field
NoHandle == ""

\* a MIME type "type/subtype"
Mime(type, subtype) == <<type, subtype>>

\* mimeType.startsWith(type + "/")
MimeStartsWith(mimeType, type) == mimeType[1] = type

\* ChatAttachment
Att(mimeType, data, name, storageUrl, fileUri) ==
    [mimeType |-> mimeType, data |-> data, name |-> name,
     storageUrl |-> storageUrl, fileUri |-> fileUri]

\* HistoryMessage
Msg(role, text, imageUrls) ==
    [role |-> role, text |-> text, imageUrls |-> imageUrls]

\* a Part of the upstream payload; the fields a part does not carry are empty
Part(kind, mimeType, data, fileUri, text, thoughtSignature) ==
    [kind |-> kind, mimeType |-> mimeType, data |-> data, fileUri |-> fileUri,
     text |-> text, thoughtSignature |-> thoughtSignature]

NoMime == <<>>

FileDataPart(mimeType, fileUri) ==
    Part("fileData", mimeType, NoHandle, fileUri, NoText, FALSE)

InlineDataPart(mimeType, data, signed) ==
    Part("inlineData", mimeType, data, NoHandle, NoText, signed)

TextPart(text, signed) ==
    Part("text", NoMime, NoHandle, NoHandle, text, signed)

\* a Content of the upstream payload
Turn(role, parts) == [role |-> role, parts |-> parts]

\* isInlineDataSupported
isInlineDataSupported(mimeType) ==
    \/ MimeStartsWith(mimeType, "image")
    \/ MimeStartsWith(mimeType, "video")
    \/ MimeStartsWith(mimeType, "audio")
    \/ mimeType = Mime("application", "pdf")

\* the MIME type handed to the file store left as the client sent it
getFileApiMimeType_Unchanged(mimeType) == mimeType

\* getFileApiMimeType
getFileApiMimeType(mimeType) ==
    LET isMedia == \/ MimeStartsWith(mimeType, "image")
                   \/ MimeStartsWith(mimeType, "video")
                   \/ MimeStartsWith(mimeType, "audio")
                   \/ mimeType = Mime("application", "pdf")
    IN  IF isMedia THEN mimeType ELSE Mime("text", "plain")

\* Buffer.from(data, 'base64').toString('utf-8') for the payloads of the model
Base64Decode(data) == IF data = "aGk=" THEN <<"h", "i">> ELSE <<>>

\* the three backticks that open and close a fenced block
FENCE == "<fence>"

\* the text part that carries a text or code file
FencedText(att) ==
    (IF att.name # NoHandle THEN <<"File: ", att.name, "\n">>
     ELSE <<"Attached File:", "\n">>)
    \o <<FENCE, att.mimeType[1], "/", att.mimeType[2], "\n">>
    \o Base64Decode(att.data)
    \o <<"\n", FENCE, "\n">>

\* the body of attachments.forEach in streamChat
AttachmentPart(att) ==
    IF att.fileUri # NoHandle
    THEN <<FileDataPart(getFileApiMimeType(att.mimeType), att.fileUri)>>
    ELSE IF isInlineDataSupported(att.mimeType)
         THEN <<InlineDataPart(att.mimeType, att.data, FALSE)>>
         ELSE <<TextPart(FencedText(att), FALSE)>>

RECURSIVE AttachmentParts(_)
AttachmentParts(atts) ==
    IF atts = <<>> THEN <<>>
    ELSE AttachmentPart(Head(atts)) \o AttachmentParts(Tail(atts))

\* if (newMessage && newMessage.trim()) parts.push({text: newMessage})
MessageParts(message) ==
    IF message # NoText /\ Trim(message) # NoText
    THEN <<TextPart(message, FALSE)>>
    ELSE <<>>

\* Array.prototype.slice(-k)
Slice(s, k) == IF Len(s) <= k THEN s ELSE SubSeq(s, Len(s) - k + 1, Len(s))

\* the whole history for every variant
LimitedHistory_Full(selected, hist) == hist

\* const limitedHistory of streamChat
LimitedHistory(selected, hist) ==
    IF selected = FLASH_IMAGE THEN Slice(hist, 1)
    ELSE IF selected = RESEARCH THEN Slice(hist, 2)
    ELSE IF selected = PRO THEN Slice(hist, 50)
    ELSE hist

\* const contents of streamChat
BuildContents(selected, hist, message, atts) ==
    LET limitedHistory == LimitedHistory(selected, hist)
    IN  [i \in 1..Len(limitedHistory) |->
            Turn(limitedHistory[i].role,
                 <<TextPart(limitedHistory[i].text, FALSE)>>)]
        \o <<Turn("user", AttachmentParts(atts) \o MessageParts(message))>>

(***************************************************************************)
(* buildProImageContents                                                   *)
(***************************************************************************)
MAX_HISTORY_MESSAGES == 10
MAX_HISTORY_IMAGES == 8

\* first pass: the image URLs of the history, newest message first
RECURSIVE AllHistoryImageUrls(_)
AllHistoryImageUrls(hist) ==
    IF hist = <<>> THEN <<>>
    ELSE hist[Len(hist)].imageUrls
         \o AllHistoryImageUrls(SubSeq(hist, 1, Len(hist) - 1))

\* new Set(allHistoryImageUrls.slice(0, MAX_HISTORY_IMAGES).map(item => item.url))
AllowedImageUrls(hist) ==
    LET all == AllHistoryImageUrls(hist)
    IN  { all[i] : i \in 1..Min({MAX_HISTORY_IMAGES, Len(all)}) }

\* second pass over the URLs of one message: fetchImageAsBase64 answers null
\* for a URL that cannot be fetched
RECURSIVE HistoryImageParts(_, _, _)
HistoryImageParts(urls, allowed, fetched) ==
    IF urls = <<>> THEN <<>>
    ELSE (IF Head(urls) \in allowed /\ fetched[Head(urls)]
          THEN <<InlineDataPart(Mime("image", "png"), Head(urls), TRUE)>>
          ELSE <<>>)
         \o HistoryImageParts(Tail(urls), allowed, fetched)

IsMarker(c) == c \in {"[IMAGE:0]", "[GRAPH:0]"}

\* text.replace(/\n?\[(?:IMAGE|GRAPH):\d+\]\n?/g, '')
RECURSIVE StripMarkers(_)
StripMarkers(text) ==
    LET afterMarker(k) ==
            IF Len(text) > k /\ text[k + 1] = "\n"
            THEN SubSeq(text, k + 2, Len(text))
            ELSE SubSeq(text, k + 1, Len(text))
    IN  IF text = <<>> THEN <<>>
        ELSE IF Len(text) >= 2 /\ text[1] = "\n" /\ IsMarker(text[2])
             THEN StripMarkers(afterMarker(2))
        ELSE IF IsMarker(text[1]) THEN StripMarkers(afterMarker(1))
        ELSE <<text[1]>> \o StripMarkers(Tail(text))

\* const cleanText
CleanText(text) == Trim(StripMarkers(text))

\* one iteration of the loop over limitedHistory
ProImageHistoryTurn(msg, allowed, fetched) ==
    LET images == HistoryImageParts(msg.imageUrls, allowed, fetched)
        cleanText == CleanText(msg.text)
        textParts == IF msg.role = "model" THEN <<TextPart(cleanText, TRUE)>>
                     ELSE IF cleanText # NoText
                          THEN <<TextPart(cleanText, FALSE)>>
                          ELSE <<>>
        msgParts == images \o textParts
    IN  Turn(msg.role, IF msgParts = <<>> THEN <<TextPart(cleanText, FALSE)>>
                       ELSE msgParts)

\* the body of the loop over attachments: image attachments with a fileUri
ProImageAttachmentPart(att) ==
    IF MimeStartsWith(att.mimeType, "image") /\ att.fileUri # NoHandle
    THEN <<FileDataPart(att.mimeType, att.fileUri)>>
    ELSE <<>>

RECURSIVE ProImageAttachmentParts(_)
ProImageAttachmentParts(atts) ==
    IF atts = <<>> THEN <<>>
    ELSE ProImageAttachmentPart(Head(atts))
         \o ProImageAttachmentParts(Tail(atts))

\* const userParts
ProImageUserParts(message, atts) ==
    LET userParts == ProImageAttachmentParts(atts) \o MessageParts(message)
    IN  IF userParts = <<>> THEN <<TextPart(NoText, FALSE)>> ELSE userParts

\* buildProImageContents
buildProImageContents(hist, message, atts, fetched) ==
    LET limitedHistory == Slice(hist, MAX_HISTORY_MESSAGES)
        allowed == AllowedImageUrls(limitedHistory)
    IN  [i \in 1..Len(limitedHistory) |->
            ProImageHistoryTurn(limitedHistory[i], allowed, fetched)]
        \o <<Turn("user", ProImageUserParts(message, atts))>>

\* the contents a generation call of the turn is given
Contents(selected, hist, message, atts, fetched) ==
    IF selected = PRO_IMAGE
    THEN buildProImageContents(hist, message, atts, fetched)
    ELSE BuildContents(selected, hist, message, atts)

(***************************************************************************)
(* verifyAuth                                                              *)
(***************************************************************************)
BEARER == "Bearer "

\* Authorization headers as pieces of text; <<>> is a missing or empty header
AuthHeaders ==
    { <<>>, <<"good">>, <<"Basic ", "good">>, <<BEARER>>, <<BEARER, "bad">>,
      <<BEARER, BEARER, "good">>, <<BEARER, "good">> }

\* the tokens admin.auth().verifyIdToken accepts
ValidTokens == {<<"good">>}

\* s up to the first piece sep
RECURSIVE UpTo(_, _)
UpTo(s, sep) ==
    IF s = <<>> \/ Head(s) = sep THEN <<>>
    ELSE <<Head(s)>> \o UpTo(Tail(s), sep)

\* s.split(sep)[1]; <<>> stands for undefined and for the empty string
SplitSecond(s, sep) ==
    LET at == { i \in 1..Len(s) : s[i] = sep }
    IN  IF at = {} THEN <<>>
        ELSE UpTo(SubSeq(s, Min(at) + 1, Len(s)), sep)

\* every token that follows "Bearer " taken as verified
verifyAuth_AnyToken(header) ==
    IF header = <<>> \/ Head(header) # BEARER THEN 401
    ELSE IF SplitSecond(header, BEARER) = <<>> THEN 401
    ELSE 0

\* verifyAuth: the status it responds with, 0 when it returns the user
verifyAuth(header) ==
    IF header = <<>> \/ Head(header) # BEARER THEN 401
    ELSE LET token == SplitSecond(header, BEARER)
         IN  IF token = <<>> THEN 401
             ELSE IF token \notin ValidTokens THEN 401
             ELSE 0

(***************************************************************************)
(* Initial state                                                           *)
(***************************************************************************)
NoDecision == [targetModel |-> "", reasoning |-> ""]

\* attachments?.some(att => att.mimeType?.startsWith('video/'))
hasVideo ==
    \E i \in 1..Len(attachments) :
        MimeStartsWith(attachments[i].mimeType, "video")

AllTools == {"googleSearch", "codeExecution", "urlContext"}

\* const tools of the regular chat branch
ChatTools == IF hasVideo THEN {"googleSearch", "urlContext"} ELSE AllTools

\* config.tools of a generation call: modelConfig of the regular chat branch,
\* proConfig of retryWithPro25, and the literal configs of the research, the
\* pro-image and the image-generation branch
ConfigTools(config) ==
    IF config \in {"flashConfig", "proConfig", "pro25Config"} THEN ChatTools
    ELSE IF config \in {"retryConfig", "researchConfig"} THEN AllTools
    ELSE IF config = "proImageConfig" THEN {"googleSearch"}
    ELSE {}

\* one upstream generation call
Call(model, config, payload) ==
    [model |-> model, config |-> config, tools |-> ConfigTools(config),
     contents |-> payload]

\* the three HTTP functions that call verifyAuth
Endpoints == {"streamChat", "unifiedUpload", "getFileUri"}

\* the image URLs of history messages
Urls == {"u1", "u2"}

AllFetched == [u \in Urls |-> TRUE]

VideoAtt ==
    Att(Mime("video", "mp4"), NoHandle, "clip.mp4", "https://storage/clip",
        "files/clip")

\* the request bodies of the turns of Spec: no message and no attachment,
\* and a video attachment after two turns of history; SpecBuild covers the
\* payloads of the other requests
TurnRequests ==
    { [history |-> <<>>, newMessage |-> NoText, attachments |-> <<>>],
      [history |-> <<Msg("user", <<"a">>, <<>>),
                     Msg("model", <<"b">>, <<"u1">>)>>,
       newMessage |-> NoText, attachments |-> <<VideoAtt>>] }

NoRequest == [history |-> <<>>, newMessage |-> NoText, attachments |-> <<>>]

Init ==
    /\ AsideIdle
    /\ pc = "request"
    /\ endpoint \in Endpoints
    /\ authHeader \in AuthHeaders
    /\ apiKey \in BOOLEAN
    /\ modelId \in (IF endpoint = "streamChat" THEN ModelIds ELSE {UNDEFINED})
    /\ \E r \in (IF endpoint = "streamChat" THEN TurnRequests ELSE {NoRequest}) :
          /\ history = r.history
          /\ newMessage = r.newMessage
          /\ attachments = r.attachments
    /\ fetchOk = AllFetched
    /\ status = 0
    /\ writes = <<>>
    /\ contents = <<>>
    /\ selectedModelId = modelId
    /\ routeFailure = "none"
    /\ events = <<>>
    /\ calls = <<>>
    /\ upstream = <<>>
    /\ fullText = NoText
    /\ sentMetadata = FALSE
    /\ streamLog = <<>>
    /\ pendingImage = FALSE
    /\ routerText = <<>>
    /\ decision = NoDecision

(***************************************************************************)
(* The head of the three functions: verifyAuth, then validation            *)
(***************************************************************************)
\* const authUser = await verifyAuth(req, res); if (!authUser) return;
VerifyAuth ==
    /\ pc = "request"
    /\ LET code == verifyAuth(authHeader)
       IN  IF code = 0
           THEN pc' = "authed" /\ status' = status
           ELSE pc' = "responded" /\ status' = code
    /\ UNCHANGED <<aside, inputs, writes, contents, selectedModelId, routeFailure,
                   events, calls, upstream, fullText, sentMetadata,
                   streamLog, pendingImage, routerText, decision>>

\* streamChat: the body is checked, then the SSE headers are flushed
Validate ==
    /\ pc = "authed" /\ endpoint = "streamChat"
    /\ IF newMessage = NoText /\ attachments = <<>>
       THEN pc' = "responded" /\ status' = 400
       ELSE pc' = "start" /\ status' = 200
    /\ UNCHANGED <<aside, inputs, writes, contents, selectedModelId, routeFailure,
                   events, calls, upstream, fullText, sentMetadata,
                   streamLog, pendingImage, routerText, decision>>

\* one write to object storage or to the provider's file store
Write(sink, ok) == [sink |-> sink, ok |-> ok]

\* unifiedUpload after verifyAuth: the body is checked, getAI() may throw,
\* Promise.all starts both writes, getSignedUrl may throw
UnifiedUpload ==
    /\ pc = "authed" /\ endpoint = "unifiedUpload"
    /\ \E bodyOk \in BOOLEAN, storageOk \in BOOLEAN, fileApiOk \in BOOLEAN,
          signedOk \in BOOLEAN :
          IF ~bodyOk THEN status' = 400 /\ writes' = writes
          ELSE IF ~apiKey THEN status' = 500 /\ writes' = writes
          ELSE /\ writes' = writes \o <<Write("storage", storageOk),
                                        Write("fileApi", fileApiOk)>>
               /\ status' = IF storageOk /\ fileApiOk /\ signedOk
                            THEN 200 ELSE 500
    /\ pc' = "responded"
    /\ UNCHANGED <<aside, inputs, contents, selectedModelId, routeFailure, events,
                   calls, upstream, fullText, sentMetadata, streamLog,
                   pendingImage, routerText, decision>>

\* getFileUri after verifyAuth: the body and the owner of the path are
\* checked, the object is downloaded, written to the file store and awaited
GetFileUri ==
    /\ pc = "authed" /\ endpoint = "getFileUri"
    /\ \E bodyOk \in BOOLEAN, owned \in BOOLEAN, downloadOk \in BOOLEAN,
          fileApiOk \in BOOLEAN, active \in BOOLEAN :
          IF ~bodyOk THEN status' = 400 /\ writes' = writes
          ELSE IF ~owned THEN status' = 403 /\ writes' = writes
          ELSE IF ~downloadOk \/ ~apiKey THEN status' = 500 /\ writes' = writes
          ELSE /\ writes' = Append(writes, Write("fileApi", fileApiOk))
               /\ status' = IF fileApiOk /\ active THEN 200 ELSE 500
    /\ pc' = "responded"
    /\ UNCHANGED <<aside, inputs, contents, selectedModelId, routeFailure, events,
                   calls, upstream, fullText, sentMetadata, streamLog,
                   pendingImage, routerText, decision>>

(***************************************************************************)
(* streamChat: router stage                                                *)
(***************************************************************************)
\* getAI() throws: the catch of the router block
RouterClientFails ==
    /\ pc = "start" /\ modelId = AUTO /\ ~apiKey
    /\ selectedModelId' = FLASH
    /\ routeFailure' = "noClient"
    /\ pc' = "routed"
    /\ UNCHANGED <<aside, inputs, status, writes, contents, events, calls, upstream,
                   fullText, sentMetadata, streamLog, pendingImage,
                   routerText, decision>>

\* determineModelFromIntent returns and routedModel is written
AutoRoute ==
    /\ pc = "start" /\ modelId = AUTO /\ apiKey
    /\ \E threw \in BOOLEAN :
       \E text \in (IF threw THEN {<<>>} ELSE RouterReplies) :
          LET d == determineModelFromIntent(threw, text)
          IN  /\ decision' = d
              /\ selectedModelId' = d.targetModel
              /\ routeFailure' =
                    IF d.reasoning = "Router error fallback" THEN "routerThrew"
                    ELSE IF d.reasoning = "Default fallback" THEN "noMatch"
                    ELSE "none"
              /\ events' = Append(events,
                              Ev("routedModel", NoText, d.targetModel, FALSE, FALSE))
    /\ pc' = "routed"
    /\ UNCHANGED <<aside, inputs, status, writes, contents, calls, upstream,
                   fullText, sentMetadata, streamLog, pendingImage,
                   routerText>>

(***************************************************************************)
(* streamChat: the four generation branches                                *)
(***************************************************************************)
\* the router stage is over
Ready == (pc = "start" /\ modelId # AUTO) \/ pc = "routed"

isImageGen == selectedModelId = FLASH_IMAGE
isResearch == selectedModelId = RESEARCH
isProImage == selectedModelId = PRO_IMAGE

\* getAI() of the chosen branch throws: the catch of streamChat
ClientFails ==
    /\ Ready /\ ~apiKey
    /\ events' = StreamChatCatch(events)
    /\ pc' = "finished"
    /\ UNCHANGED <<aside, inputs, status, writes, contents, selectedModelId,
                   routeFailure, calls, upstream, fullText, sentMetadata,
                   streamLog, pendingImage, routerText, decision>>

\* image generation, not streamed: generateContent answers or rejects
ImageGen ==
    /\ Ready /\ apiKey /\ isImageGen
    /\ contents' = Contents(selectedModelId, history, newMessage, attachments,
                             fetchOk)
    /\ calls' = Append(calls, Call(FLASH_IMAGE, "imageConfig", contents'))
    /\ \/ \E parts \in ImageResponses :
             events' = Append(events \o ImageGenEvents(parts), Plain("done"))
       \/ events' = StreamChatCatch(events)
    /\ pc' = "finished"
    /\ UNCHANGED <<aside, inputs, status, writes, selectedModelId, routeFailure,
                   upstream, fullText, sentMetadata, streamLog, pendingImage,
                   routerText, decision>>

\* the three streamed branches issue generateContentStream
OpenStream ==
    /\ Ready /\ apiKey /\ ~isImageGen
    /\ contents' = Contents(selectedModelId, history, newMessage, attachments,
                             fetchOk)
    /\ IF isResearch
       THEN /\ calls' = Append(calls, Call(PRO, "researchConfig", contents'))
            /\ pc' = "research"
       ELSE IF isProImage
       THEN /\ calls' = Append(calls,
                            Call(PRO_IMAGE, "proImageConfig", contents'))
            /\ pc' = "proimage"
       ELSE /\ calls' = Append(calls, Call(ChatModel(selectedModelId),
                                           ModelConfig(selectedModelId),
                                           contents'))
            /\ pc' = "chat1"
    /\ UNCHANGED <<aside, inputs, status, writes, selectedModelId, routeFailure,
                   events, upstream, fullText, sentMetadata, streamLog,
                   pendingImage, routerText, decision>>

(***************************************************************************)
(* Regular chat: streamChatWithRetry                                       *)
(***************************************************************************)
InChat == pc \in {"chat1", "chat2"}

\* one iteration of the loop of streamWithRetry
ChatChunk ==
    /\ InChat /\ Len(upstream) < MaxChunks
    /\ \E chunk \in ChatChunks :
          LET src == SourcesStep(chunk, sentMetadata)
          IN  /\ upstream' = Append(upstream, chunk)
              /\ fullText' = fullText \o ChatPartText(chunk)
              /\ events' = events \o ChatPartEvents(chunk) \o src.out
              /\ sentMetadata' = src.sent
    /\ UNCHANGED <<pc, aside, inputs, status, writes, contents, selectedModelId,
                   routeFailure, calls, streamLog, pendingImage, routerText,
                   decision>>

\* the fallback call given the new user turn alone
retryWithPro25_LastTurn(payload) ==
    Call(PRO25, "retryConfig", <<payload[Len(payload)]>>)

\* the call retryWithPro25 issues: streamWithRetry(ai, "gemini-2.5-pro",
\* contents, proConfig, res)
retryWithPro25(payload) == Call(PRO25, "retryConfig", payload)

\* streamWithRetry returns {text: fullText, success} and its caller goes on:
\* streamChatWithRetry retries or returns, streamChat writes done, or the
\* TypeError of streamChatWithRetry reaches the catch of streamChat
StreamReturns(success) ==
    LET stage == IF pc = "chat1" THEN 1 ELSE 2
        next == AfterStream(stage, fullText, ChatModel(selectedModelId),
                            ModelConfig(selectedModelId))
    IN  /\ streamLog' = Append(streamLog,
              [chunks |-> upstream, text |-> fullText, success |-> success])
        /\ IF next = "retry"
           THEN /\ events' = Append(events,
                                Ev("retry", NoText, PRO25, FALSE, FALSE))
                /\ calls' = Append(calls, retryWithPro25(contents))
                /\ pc' = "chat2"
                /\ upstream' = <<>>
                /\ fullText' = NoText
                /\ sentMetadata' = FALSE
           ELSE /\ events' = IF next = "typeerror"
                             THEN StreamChatCatch(events)
                             ELSE Append(events, Plain("done"))
                /\ pc' = "finished"
                /\ UNCHANGED <<calls, upstream, fullText, sentMetadata>>
        /\ UNCHANGED <<aside, inputs, status, writes, contents, selectedModelId,
                       routeFailure, pendingImage, routerText, decision>>

\* the upstream stream is exhausted
ChatStreamCompletes == InChat /\ StreamReturns(TRUE)

\* the provider throws while the stream is opened or consumed
ChatStreamThrows == InChat /\ StreamReturns(FALSE)

(***************************************************************************)
(* Research                                                                *)
(***************************************************************************)
ResearchChunk ==
    /\ pc = "research" /\ Len(upstream) < MaxChunks
    /\ \E chunk \in ChatChunks :
          LET src == SourcesStep(chunk, sentMetadata)
          IN  /\ upstream' = Append(upstream, chunk)
              /\ fullText' = fullText \o ChatPartText(chunk)
              /\ events' = events \o ResearchPartEvents(chunk) \o src.out
              /\ sentMetadata' = src.sent
    /\ UNCHANGED <<pc, aside, inputs, status, writes, contents, selectedModelId,
                   routeFailure, calls, streamLog, pendingImage, routerText,
                   decision>>

ResearchCompletes ==
    /\ pc = "research"
    /\ events' = Append(events, Plain("done"))
    /\ streamLog' = Append(streamLog,
          [chunks |-> upstream, text |-> fullText, success |-> TRUE])
    /\ pc' = "finished"
    /\ UNCHANGED <<aside, inputs, status, writes, contents, selectedModelId,
                   routeFailure, calls, upstream, fullText, sentMetadata,
                   pendingImage, routerText, decision>>

\* the provider throws: the exception reaches the catch of streamChat
ResearchThrows ==
    /\ pc = "research"
    /\ events' = StreamChatCatch(events)
    /\ streamLog' = Append(streamLog,
          [chunks |-> upstream, text |-> fullText, success |-> FALSE])
    /\ pc' = "finished"
    /\ UNCHANGED <<aside, inputs, status, writes, contents, selectedModelId,
                   routeFailure, calls, upstream, fullText, sentMetadata,
                   pendingImage, routerText, decision>>

(***************************************************************************)
(* Pro image: handleProImageStream                                         *)
(***************************************************************************)
\* one part of a chunk; an image part awaits dualUpload before the loop goes on
ProImageChunk ==
    /\ pc = "proimage" /\ Len(upstream) < MaxChunks
    /\ \E chunk \in ProImageChunks :
          LET src == SourcesStep(chunk, sentMetadata)
          IN  /\ upstream' = Append(upstream, chunk)
              /\ IF ProImageUploads(chunk)
                 THEN /\ events' = events \o ProImageTextEvents(chunk)
                      /\ pendingImage' = TRUE
                      /\ pc' = "upload"
                      /\ UNCHANGED sentMetadata
                 ELSE /\ events' = events \o ProImageTextEvents(chunk) \o src.out
                      /\ sentMetadata' = src.sent
                      /\ UNCHANGED <<pc, pendingImage>>
    /\ UNCHANGED <<aside, inputs, status, writes, contents, selectedModelId,
                   routeFailure, calls, fullText, streamLog, routerText,
                   decision>>

\* dualUpload settles: the image event, then the rest of the iteration
UploadSettles ==
    /\ pc = "upload"
    /\ \E storageOk \in BOOLEAN, fileApiOk \in BOOLEAN :
          LET src == SourcesStep(upstream[Len(upstream)], sentMetadata)
          IN  /\ writes' = writes \o <<Write("storage", storageOk),
                                        Write("fileApi", fileApiOk)>>
              /\ events' = Append(events,
                      ProImageImageEvent(DualUpload(storageOk, fileApiOk)))
                      \o src.out
              /\ sentMetadata' = src.sent
    /\ pendingImage' = FALSE
    /\ pc' = "proimage"
    /\ UNCHANGED <<aside, inputs, status, contents, selectedModelId, routeFailure,
                   calls, upstream, fullText, streamLog, routerText,
                   decision>>

ProImageCompletes ==
    /\ pc = "proimage"
    /\ events' = Append(events, Plain("done"))
    /\ streamLog' = Append(streamLog,
          [chunks |-> upstream, text |-> fullText, success |-> TRUE])
    /\ pc' = "finished"
    /\ UNCHANGED <<aside, inputs, status, writes, contents, selectedModelId,
                   routeFailure, calls, upstream, fullText, sentMetadata,
                   pendingImage, routerText, decision>>

\* the provider throws: the catch of handleProImageStream
ProImageThrows ==
    /\ pc = "proimage"
    /\ events' = ProImageCatch(events)
    /\ streamLog' = Append(streamLog,
          [chunks |-> upstream, text |-> fullText, success |-> FALSE])
    /\ pc' = "finished"
    /\ UNCHANGED <<aside, inputs, status, writes, contents, selectedModelId,
                   routeFailure, calls, upstream, fullText, sentMetadata,
                   pendingImage, routerText, decision>>

(***************************************************************************)
(* One streamChat turn                                                     *)
(***************************************************************************)
Next ==
    \/ VerifyAuth
    \/ Validate
    \/ UnifiedUpload
    \/ GetFileUri
    \/ RouterClientFails
    \/ AutoRoute
    \/ ClientFails
    \/ ImageGen
    \/ OpenStream
    \/ ChatChunk
    \/ ChatStreamCompletes
    \/ ChatStreamThrows
    \/ ResearchChunk
    \/ ResearchCompletes
    \/ ResearchThrows
    \/ ProImageChunk
    \/ UploadSettles
    \/ ProImageCompletes
    \/ ProImageThrows

Spec == Init /\ [][Next]_vars

(***************************************************************************)
(* A turn whose client may go away                                         *)
(***************************************************************************)
\* a stream is open: the handler is inside one of its three stream loops
Streaming == pc \in {"chat1", "chat2", "research", "proimage", "upload"}

\* The client closes the connection in the middle of a stream.  No handler
\* of the turn listens for the close of req or res or reads res.writableEnded
\* or res.destroyed, and res.write on a closed response does not throw: the
\* turn goes on as before.
ClientDisconnects ==
    /\ Streaming /\ connected
    /\ connected' = FALSE
    /\ UNCHANGED <<pc, turnVars, cleanupVars, clientVars, tmpVars>>

SpecDisconnect == Init /\ [][Next \/ ClientDisconnects]_vars

(***************************************************************************)
(* determineModelFromIntent on its own: every classifier reply             *)
(***************************************************************************)
RouterInit ==
    /\ AsideIdle
    /\ pc = "router"
    /\ routerText \in RouterReplies
    /\ decision = NoDecision
    /\ endpoint = "streamChat"
    /\ authHeader = <<BEARER, "good">>
    /\ modelId = AUTO
    /\ apiKey = TRUE
    /\ history = <<>>
    /\ newMessage = <<"a">>
    /\ attachments = <<>>
    /\ fetchOk = AllFetched
    /\ status = 200
    /\ writes = <<>>
    /\ contents = <<>>
    /\ selectedModelId = AUTO
    /\ routeFailure = "none"
    /\ events = <<>>
    /\ calls = <<>>
    /\ upstream = <<>>
    /\ fullText = NoText
    /\ sentMetadata = FALSE
    /\ streamLog = <<>>
    /\ pendingImage = FALSE

\* the classifier answers routerText
Classify ==
    /\ pc = "router"
    /\ decision' = determineModelFromIntent(FALSE, routerText)
    /\ pc' = "classified"
    /\ UNCHANGED <<aside, inputs, status, writes, contents, selectedModelId,
                   routeFailure, events, calls, upstream, fullText,
                   sentMetadata, streamLog, pendingImage, routerText>>

\* the classifier call rejects
ClassifyThrows ==
    /\ pc = "router"
    /\ decision' = determineModelFromIntent(TRUE, routerText)
    /\ pc' = "classifierThrew"
    /\ UNCHANGED <<aside, inputs, status, writes, contents, selectedModelId,
                   routeFailure, events, calls, upstream, fullText,
                   sentMetadata, streamLog, pendingImage, routerText>>

RouterNext == Classify \/ ClassifyThrows

SpecRouter == RouterInit /\ [][RouterNext]_vars

(***************************************************************************)
(* The upstream payload on its own: streamChat's contents and              *)
(* buildProImageContents over bounded requests                             *)
(***************************************************************************)
\* history whose messages are told apart by their text
LongHistory(n) ==
    [i \in 1..n |-> Msg(IF i % 2 = 1 THEN "user" ELSE "model",
                        <<ToString(i)>>, <<>>)]

LongHistories == { LongHistory(n) : n \in 0..MaxHistory }

MimeTypes ==
    { Mime("image", "png"), Mime("video", "mp4"), Mime("audio", "mpeg"),
      Mime("application", "pdf"), Mime("application", "json"),
      Mime("text", "x-python") }

\* an attachment before its upload, after its upload, and after an upload
\* that left it a display handle only; one attachment carries no name
Attachments ==
    { Att(m, "aGk=", "f.bin", NoHandle, NoHandle) : m \in MimeTypes }
    \cup { Att(m, NoHandle, "f.bin", "https://storage/f", "files/f") :
              m \in MimeTypes }
    \cup { Att(m, "aGk=", "f.bin", "https://storage/f", NoHandle) :
              m \in MimeTypes }
    \cup { Att(Mime("text", "x-python"), "aGk=", NoHandle, NoHandle, NoHandle) }

AttachmentLists ==
    UNION { [1..n -> Attachments] : n \in 0..MaxAttachments }

Messages == { NoText, <<" ">>, <<"a">> }

\* the imageUrls of a history message
UrlLists ==
    { <<>>, <<"u1">>, <<"u2">>, <<"u1", "u2">>, <<"u1", "u1", "u1">>,
      <<"u2", "u1", "u2">> }

\* history messages that refer to images
ImageMessages ==
    { Msg("model", <<"b", "\n", "[IMAGE:0]">>, urls) : urls \in UrlLists }
    \cup { Msg("user", <<"a">>, <<>>), Msg("user", NoText, <<"u1">>) }

ImageHistories ==
    UNION { [1..n -> ImageMessages] : n \in 0..MaxImageMessages }

ImageAttachmentLists ==
    { <<>>,
      <<Att(Mime("image", "png"), NoHandle, "f.png", "https://storage/f",
            "files/f")>>,
      <<Att(Mime("image", "png"), "aGk=", "f.png", NoHandle, NoHandle)>> }

\* the selected variant once the router stage is over
Variants == ModelIds \ {AUTO}

BuildInit ==
    /\ AsideIdle
    /\ pc = "build"
    /\ \/ /\ selectedModelId \in Variants
          /\ history \in LongHistories
          /\ newMessage = <<"a">>
          /\ attachments = <<>>
          /\ fetchOk = AllFetched
       \/ /\ selectedModelId \in Variants
          /\ history = <<>>
          /\ newMessage \in Messages
          /\ attachments \in AttachmentLists
          /\ fetchOk = AllFetched
       \/ /\ selectedModelId = PRO_IMAGE
          /\ history \in ImageHistories
          /\ newMessage \in {NoText, <<"a">>}
          /\ attachments \in ImageAttachmentLists
          /\ fetchOk \in [Urls -> BOOLEAN]
    /\ endpoint = "streamChat"
    /\ authHeader = <<BEARER, "good">>
    /\ modelId = selectedModelId
    /\ apiKey = TRUE
    /\ status = 200
    /\ writes = <<>>
    /\ contents = <<>>
    /\ routeFailure = "none"
    /\ events = <<>>
    /\ calls = <<>>
    /\ upstream = <<>>
    /\ fullText = NoText
    /\ sentMetadata = FALSE
    /\ streamLog = <<>>
    /\ pendingImage = FALSE
    /\ routerText = <<>>
    /\ decision = NoDecision

\* streamChat builds parts and contents
BuildChat ==
    /\ pc = "build" /\ selectedModelId # PRO_IMAGE
    /\ contents' = BuildContents(selectedModelId, history, newMessage,
                                 attachments)
    /\ pc' = "built"
    /\ UNCHANGED <<aside, inputs, status, writes, selectedModelId, routeFailure,
                   events, calls, upstream, fullText, sentMetadata, streamLog,
                   pendingImage, routerText, decision>>

\* the pro-image branch builds proImageContents
BuildProImage ==
    /\ pc = "build" /\ selectedModelId = PRO_IMAGE
    /\ contents' = buildProImageContents(history, newMessage, attachments,
                                         fetchOk)
    /\ pc' = "built"
    /\ UNCHANGED <<aside, inputs, status, writes, selectedModelId, routeFailure,
                   events, calls, upstream, fullText, sentMetadata, streamLog,
                   pendingImage, routerText, decision>>

BuildNext == BuildChat \/ BuildProImage

SpecBuild == BuildInit /\ [][BuildNext]_vars

(***************************************************************************)
(* Properties                                                              *)
(***************************************************************************)
Last(s) == s[Len(s)]

IsTerminal(e) == e.type \in {"done", "error"}

Count(type) == Cardinality({ i \in 1..Len(events) : events[i].type = type })

\* the turn took the regular chat branch
IsChatTurn ==
    /\ Len(calls) >= 1
    /\ calls[1].config \in {"flashConfig", "proConfig", "pro25Config", UNDEFINED}

\* a finished stream whose non-thinking text is empty or white space
EmptyResult(r) == Len(Trim(r.text)) = 0

\* C1: a turn served by streamChatWithRetry issues at most two streaming
\* generation calls, at most one of them the fallback call, and when the
\* fallback stream returns empty text too the turn ends there with `done`.
C1_AtMostOneFallback ==
    /\ Len(calls) <= 2
    /\ Cardinality({ i \in 1..Len(calls) : calls[i].config = "retryConfig" }) <= 1
    /\ (pc = "finished" /\ Len(streamLog) = 2 /\ EmptyResult(streamLog[2]))
          => (Len(calls) = 2 /\ Last(events).type = "done")

\* empty first stream, then an empty fallback stream, and the turn is over
C1_Witness ==
    /\ pc = "finished"
    /\ Len(streamLog) = 2
    /\ streamLog[1].success /\ EmptyResult(streamLog[1])
    /\ streamLog[2].success /\ EmptyResult(streamLog[2])
    /\ streamLog[2].chunks # <<>>

\* C2: the event sequence of a turn holds a terminal event (`done` or
\* `error`) only as its last event, and a finished turn holds one: exactly
\* one terminal event, never both kinds, and nothing written after it.
C2_ExactlyOneTerminal ==
    /\ \A i \in 1..(Len(events) - 1) : ~IsTerminal(events[i])
    /\ pc = "finished" => (events # <<>> /\ IsTerminal(Last(events)))
    /\ (events # <<>> /\ IsTerminal(Last(events))) => pc = "finished"

\* a turn with a retry whose fallback stream the provider broke off
C2_Witness ==
    /\ pc = "finished"
    /\ Count("retry") = 1
    /\ Len(streamLog) = 2 /\ ~streamLog[2].success
    /\ Count("done") + Count("error") = 1

\* C3: when the provider throws while a stream is opened or consumed, the
\* turn ends with one `error` event and writes no `done` event.
C3_ProviderThrowEndsWithError ==
    (pc = "finished" /\ \E i \in 1..Len(streamLog) : ~streamLog[i].success)
        => (Last(events).type = "error" /\ Count("error") = 1
            /\ Count("done") = 0)

\* C4: a second generation call is made only after the first stream ran to
\* completion with empty or white-space text; after a first stream that the
\* provider broke off there is no further call.
C4_FallbackOnlyAfterCompletedEmpty ==
    /\ Len(calls) >= 2 => (streamLog[1].success /\ EmptyResult(streamLog[1]))
    /\ (Len(streamLog) >= 1 /\ ~streamLog[1].success) => Len(calls) = 1

\* C5: a regular chat turn whose first stream completes with empty or
\* white-space text ends with `done`, whatever the model identifier.
C5_EmptyNeverSurfacedAsError ==
    (/\ pc = "finished"
     /\ IsChatTurn
     /\ streamLog[1].success /\ EmptyResult(streamLog[1]))
        => Last(events).type = "done"

\* the text of the parts of chunks that are not flagged as thought
RECURSIVE NonThoughtText(_)
NonThoughtText(chunks) ==
    IF chunks = <<>> THEN <<>>
    ELSE (IF Head(chunks).thought THEN <<>> ELSE Head(chunks).text)
         \o NonThoughtText(Tail(chunks))

\* every part of the stream is a thought, an image or metadata
OnlyThoughts(chunks) ==
    \A i \in 1..Len(chunks) : chunks[i].thought \/ chunks[i].text = NoText

\* C6: the accumulated text of a stream is the text of its parts that are
\* not flagged as thought; a stream of thought parts, images and metadata
\* only returns text of length zero, and for a retry model it is not accepted
\* as an answer.
C6_ThoughtNeverInFullText ==
    /\ (InChat \/ pc = "research") => fullText = NonThoughtText(upstream)
    /\ IsChatTurn =>
          \A i \in 1..Len(streamLog) :
             /\ streamLog[i].text = NonThoughtText(streamLog[i].chunks)
             /\ OnlyThoughts(streamLog[i].chunks) => Len(streamLog[i].text) = 0
    /\ (/\ IsChatTurn /\ Len(streamLog) >= 1
        /\ OnlyThoughts(streamLog[1].chunks)
        /\ calls[1].model \in RetryModels)
          => ~(Len(calls) = 1 /\ Last(events).type = "done")

\* a first stream of thought parts only, followed by the fallback call
C6_Witness ==
    /\ pc = "chat2"
    /\ Len(streamLog) = 1
    /\ streamLog[1].chunks = <<ThoughtChunk, ThoughtChunk>>
    /\ Count("thinking") = 2
    /\ Len(calls) = 2

\* the texts that thought parts carry
ThoughtTexts ==
    { c.text : c \in { d \in ChatChunks \cup ProImageChunks :
                          d.thought /\ d.text # NoText } }

\* C7: in every stream handler the text of a part flagged as thought is
\* written as a `thinking` event, never as a `text` event.
C7_ThoughtNeverTextEvent ==
    \A i \in 1..Len(events) :
        events[i].type = "text" => events[i].text \notin ThoughtTexts

\* C8: a turn writes at most one `sources` event, also when the first stream
\* wrote one, returned empty text and was followed by the fallback stream.
C8_AtMostOneSources == Count("sources") <= 1

\* does text hold pattern pat somewhere
Contains(text, pat) == \E i \in 1..Len(text) : OccursAt(text, i, pat)

\* C9: for every classifier reply the router returns gemini-3-flash-preview,
\* gemini-3-pro-preview or gemini-3-pro-image-preview (the default is one of
\* them), and a reply that names gemini-3-pro-image-preview and no other
\* identifier is routed to gemini-3-pro-image-preview.
C9_RoutingClosure ==
    pc \in {"classified", "classifierThrew"} =>
        /\ decision.targetModel \in {FLASH, PRO, PRO_IMAGE}
        /\ (/\ pc = "classified"
            /\ Contains(routerText, <<"gemini-3-pro", "-image", "-preview">>)
            /\ ~Contains(routerText, <<"gemini-3-flash", "-preview">>)
            /\ ~Contains(routerText, <<"gemini-3-pro", "-preview">>))
              => decision.targetModel = PRO_IMAGE

\* a reply with text around the image identifier has been classified
C9_Witness ==
    /\ pc = "classified"
    /\ routerText = <<"x", "gemini-3-pro", "-image", "-preview", "x">>
    /\ decision.targetModel = PRO_IMAGE

\* the default that determineModelFromIntent returns
RouterDefault == PRO

\* C10: every routing failure selects the same default variant and writes no
\* `error` event before the generation stage.
C10_OneDefaultForEveryFailure ==
    (pc = "routed" /\ routeFailure # "none")
        => (selectedModelId = RouterDefault /\ Count("error") = 0)

\* C11: the empty-response retry is taken only when the model of the first
\* call is gemini-3-flash-preview or gemini-3-pro-preview.  For every other
\* model of the regular chat branch there is one generation call and no
\* `retry` event, and after an empty first stream the result of that stream
\* is what the turn ends with: one stream, then `done`.
C11_RetryOnlyForRetryModels ==
    (IsChatTurn /\ calls[1].model \notin {FLASH, PRO})
        => /\ Len(calls) = 1
           /\ Count("retry") = 0
           /\ Len(streamLog) <= 1
           /\ (/\ pc = "finished"
               /\ streamLog[1].success /\ EmptyResult(streamLog[1]))
                 => Last(events).type = "done"

\* gemini-2.5-pro answered white space only and the turn is over
C11_Witness ==
    /\ pc = "finished"
    /\ IsChatTurn /\ calls[1].model = PRO25
    /\ streamLog = <<[chunks |-> <<SpaceChunk>>, text |-> <<" ">>,
                      success |-> TRUE]>>
    /\ events = <<TextEv("text", <<" ">>), Plain("done")>>

\* the events streamWithRetry writes for a sequence of chunks
RECURSIVE StreamEvents(_, _)
StreamEvents(chunks, sent) ==
    IF chunks = <<>> THEN <<>>
    ELSE LET src == SourcesStep(Head(chunks), sent)
         IN  ChatPartEvents(Head(chunks)) \o src.out
             \o StreamEvents(Tail(chunks), src.sent)

\* the number of events written before the first generation call
RoutedEvents == IF events # <<>> /\ events[1].type = "routedModel" THEN 1 ELSE 0

\* C12: a turn writes as many `retry` events as it makes fallback calls, one
\* or none.  The `retry` event follows the events of the first stream and
\* precedes the events of the fallback stream, and the fallback call is given
\* the contents of the first call.
C12_RetryEventBetweenStreams ==
    /\ Count("retry") =
          Cardinality({ i \in 1..Len(calls) : calls[i].config = "retryConfig" })
    /\ Count("retry") <= 1
    /\ (IsChatTurn /\ Len(calls) = 2) =>
          LET first == StreamEvents(streamLog[1].chunks, FALSE)
              k == RoutedEvents + Len(first) + 1
              second == StreamEvents(IF pc = "chat2" THEN upstream
                                     ELSE streamLog[2].chunks, FALSE)
          IN  /\ Len(events) >= k + Len(second)
              /\ SubSeq(events, RoutedEvents + 1, k - 1) = first
              /\ events[k].type = "retry" /\ events[k].model = PRO25
              /\ SubSeq(events, k + 1, k + Len(second)) = second
              /\ Len(events) - (k + Len(second)) =
                    (IF pc = "finished" THEN 1 ELSE 0)
              /\ calls[2].model = PRO25
              /\ calls[2].contents = calls[1].contents

\* events on both sides of the `retry` event of a turn with history
C12_Witness ==
    /\ pc = "finished"
    /\ Len(calls) = 2
    /\ Len(calls[1].contents) = 3
    /\ streamLog[1].chunks = <<ThoughtChunk, WebChunk>>
    /\ streamLog[2].chunks = <<TextChunk, ImageChunk>>
    /\ [i \in 1..Len(events) |-> events[i].type] =
          <<"thinking", "sources", "retry", "text", "graph", "done">>

IsMediaType(mimeType) ==
    \/ mimeType[1] \in {"image", "video", "audio"}
    \/ mimeType = <<"application", "pdf">>

\* the new user turn of the payload
UserTurn == contents[Len(contents)]

\* the pieces of text, the handles and the bytes a part carries
PartValues(part) ==
    {part.fileUri, part.data} \cup { part.text[i] : i \in 1..Len(part.text) }

HistoryCap(selected) ==
    CASE selected = FLASH_IMAGE -> 1
      [] selected = RESEARCH -> 2
      [] selected = PRO -> 50
      [] selected = PRO_IMAGE -> 10
      [] OTHER -> Len(history)

\* a turn of the pro-image payload holds the cleaned text of msg and images
\* of msg only
StemsFrom(turn, msg) ==
    \A k \in 1..Len(turn.parts) :
        IF turn.parts[k].kind = "text"
        THEN turn.parts[k].text = CleanText(msg.text)
        ELSE /\ turn.parts[k].kind = "inlineData"
             /\ \E j \in 1..Len(msg.imageUrls) :
                   msg.imageUrls[j] = turn.parts[k].data

RECURSIVE InlineData(_)
InlineData(parts) ==
    IF parts = <<>> THEN <<>>
    ELSE (IF Head(parts).kind = "inlineData" THEN <<Head(parts).data>>
          ELSE <<>>)
         \o InlineData(Tail(parts))

\* the inline parts of the first n turns of the payload
RECURSIVE HistoryImages(_)
HistoryImages(n) ==
    IF n = 0 THEN 0
    ELSE Len(InlineData(contents[n].parts)) + HistoryImages(n - 1)

\* the URLs of urls that are among the 8 newest of the history and can be
\* fetched, where rank counts the first of urls from the newest image on
RECURSIVE NewestKept(_, _)
NewestKept(urls, rank) ==
    IF urls = <<>> THEN <<>>
    ELSE (IF rank <= 8 /\ fetchOk[Head(urls)] THEN <<Head(urls)>> ELSE <<>>)
         \o NewestKept(Tail(urls), rank + 1)

\* C16: buildProImageContents re-embeds at most 8 history images as inline
\* parts, also when a URL occurs more than once, and the images it re-embeds
\* are the newest of the truncated history, counted from its last message
\* backwards.
C16_AtMostEightNewestImages ==
    (pc = "built" /\ selectedModelId = PRO_IMAGE) =>
        LET limited == Slice(history, 10)
            n == Len(limited)
        IN  /\ HistoryImages(n) <= 8
            /\ \A i \in 1..n :
                  InlineData(contents[i].parts) =
                     NewestKept(limited[i].imageUrls,
                        1 + Len(AllHistoryImageUrls(SubSeq(limited, i + 1, n))))

\* the image parts of the whole payload
ImageParts ==
    { <<t, k>> \in (1..Len(contents)) \X (1..4) :
         /\ k <= Len(contents[t].parts)
         /\ contents[t].parts[k].kind \in {"inlineData", "fileData"}
         /\ contents[t].parts[k].mimeType[1] = "image" }

\* C17: for gemini-3-pro-image-preview every image attachment of the new
\* user turn is in the payload, as a file reference when it has a fileUri
\* and as inline bytes otherwise, so that one prior model turn with one
\* generated image and one new image attachment give 2 image parts.
C17_EveryImageAttachmentSent ==
    (pc = "built" /\ selectedModelId = PRO_IMAGE) =>
        /\ \A i \in 1..Len(attachments) :
              attachments[i].mimeType[1] = "image" =>
                 \E k \in 1..Len(UserTurn.parts) :
                    LET part == UserTurn.parts[k]
                    IN  IF attachments[i].fileUri # NoHandle
                        THEN /\ part.kind = "fileData"
                             /\ part.fileUri = attachments[i].fileUri
                        ELSE /\ part.kind = "inlineData"
                             /\ part.data = attachments[i].data
        /\ (/\ Len(history) = 1 /\ history[1].role = "model"
            /\ Len(history[1].imageUrls) = 1
            /\ fetchOk[history[1].imageUrls[1]]
            /\ Len(attachments) = 1
            /\ attachments[1].mimeType[1] = "image")
              => Cardinality(ImageParts) = 2

\* the turn took the pro-image branch
IsProImageTurn == Len(calls) >= 1 /\ calls[1].config = "proImageConfig"

\* the places of the `image` events in events, in order
ImageEventAt(k) ==
    CHOOSE i \in 1..Len(events) :
        /\ events[i].type = "image"
        /\ Cardinality({ j \in 1..i : events[j].type = "image" }) = k

\* the inline-image fragments of the stream that are not flagged as thought
ImageFragments ==
    Cardinality({ i \in 1..Len(upstream) :
                     upstream[i].inlineData /\ ~upstream[i].thought })

C19_WritesFailIndependently ==
    IsProImageTurn =>
        \A k \in 1..Count("image") :
            LET ev == events[ImageEventAt(k)]
                storageOk == writes[2 * k - 1].ok
                fileApiOk == writes[2 * k].ok
            IN  /\ (~storageOk /\ fileApiOk)
                      => (ev.fileUri /\ ~ev.storageUrl)
                /\ (storageOk /\ ~fileApiOk)
                      => (ev.storageUrl /\ ~ev.fileUri)

\* C20: while a dual upload is pending the stream is not held up, a fragment
\* that arrives can be handled before the upload settles; the `image` event
\* of the upload is not written before the upload has settled.
C20_UploadDoesNotBlockText ==
    (pc = "upload" /\ Len(upstream) < MaxChunks) =>
        /\ ENABLED ProImageChunk
        /\ Count("image") = ImageFragments - 1

\* a first stream that delivered a picture: a code-execution image or an
\* inline graph
DeliveredMedia(stream) ==
    \E i \in 1..Len(stream.chunks) :
        stream.chunks[i].codeImage \/ stream.chunks[i].inlineData

\* C28: a fallback retry is issued only when the first stream delivered no
\* user-visible content: after a first stream that wrote an `image` or a
\* `graph` event the turn writes no `retry` event and makes no second
\* generation call.
C28_NoRetryAfterMedia ==
    (IsChatTurn /\ streamLog # <<>> /\ DeliveredMedia(streamLog[1]))
        => (Count("retry") = 0 /\ Len(calls) = 1)

\* C29: when the new turn carries a video attachment, no upstream generation
\* call of the turn enables the code-execution tool: neither the first call
\* nor the fallback call.
C29_NoCodeExecutionWithVideo ==
    hasVideo =>
        \A i \in 1..Len(calls) : "codeExecution" \notin calls[i].tools

\* C30: for every request that passes the validation of streamChat, a
\* whitespace-only message without attachments and attachments that produce
\* no part included, the new user turn of the upstream payload has at least
\* one part, in the regular chat path and in the pro-image path.
C30_UserTurnHasAPart ==
    (pc = "built" /\ ~(newMessage = NoText /\ Len(attachments) = 0))
        => Len(UserTurn.parts) >= 1

(***************************************************************************)
(* Session cleanup: extractStoragePath and onChatDeleted                   *)
(***************************************************************************)
\* no streamChat turn
TurnIdle ==
    /\ endpoint = "streamChat"
    /\ authHeader = <<BEARER, "good">>
    /\ modelId = UNDEFINED
    /\ apiKey = TRUE
    /\ history = <<>>
    /\ newMessage = NoText
    /\ attachments = <<>>
    /\ fetchOk = AllFetched
    /\ status = 0
    /\ writes = <<>>
    /\ contents = <<>>
    /\ selectedModelId = UNDEFINED
    /\ routeFailure = "none"
    /\ events = <<>>
    /\ calls = <<>>
    /\ upstream = <<>>
    /\ fullText = NoText
    /\ sentMetadata = FALSE
    /\ streamLog = <<>>
    /\ pendingImage = FALSE
    /\ routerText = <<>>
    /\ decision = NoDecision

\* messages of a deleted conversation at most
MaxMessages == 2

\* An object path and a URL pathname are sequences of pieces of text: "/",
\* " " and names in a path; "/", "%2F", "%20", "%" and names in a pathname.
SLASH == "/"
BUCKET == "bucket"

\* the object paths the records of the model refer to
OwnAttachment == <<"users", SLASH, "u1", SLASH, "attachments", SLASH, "f">>
OwnGenerated == <<"users", SLASH, "u1", SLASH, "generated", SLASH, "a", " ", "b">>
ForeignAttachment == <<"users", SLASH, "u2", SLASH, "attachments", SLASH, "f">>
OwnNested == <<"users", SLASH, "u1", SLASH, "attachments", SLASH, "o", SLASH, "f">>

ObjectPaths == {OwnAttachment, OwnGenerated, ForeignAttachment, OwnNested}

\* encodeURIComponent for the pieces of a path
EncodeURIComponent(path) ==
    [i \in 1..Len(path) |->
        IF path[i] = SLASH THEN "%2F"
        ELSE IF path[i] = " " THEN "%20"
        ELSE path[i]]

\* the percent-encoding of a path that keeps its slashes
EncodePath(path) ==
    [i \in 1..Len(path) |-> IF path[i] = " " THEN "%20" ELSE path[i]]

\* att.storageUrl: "absent" when the attachment has none, "invalid" when
\* new URL(storageUrl) throws, "url" with url.pathname otherwise
Url(kind, pathname) == [kind |-> kind, pathname |-> pathname]

\* Format: /v0/b/bucket/o/encodedPath
DownloadUrl(path) ==
    Url("url", <<SLASH, "v0", SLASH, "b", SLASH, BUCKET, SLASH, "o", SLASH>>
              \o EncodeURIComponent(path))

\* Signed URL format: /bucket/path
SignedUrl(path) == Url("url", <<SLASH, BUCKET, SLASH>> \o EncodePath(path))

\* a string that new URL() rejects, and att.storageUrl absent
InvalidUrl == Url("invalid", <<>>)
NoUrl == Url("absent", <<>>)

\* a URL whose pathname holds a "%" that starts no escape
BadEscapeUrl == Url("url", <<SLASH, BUCKET, SLASH, "users", SLASH, "%">>)

\* decodeURIComponent throws a URIError for a "%" that starts no escape
DecodeThrows(s) == \E i \in 1..Len(s) : s[i] = "%"

\* decodeURIComponent
DecodeURIComponent(s) ==
    [i \in 1..Len(s) |->
        IF s[i] = "%2F" THEN SLASH
        ELSE IF s[i] = "%20" THEN " "
        ELSE s[i]]

\* null, and the empty string that `if (path)` treats alike
NoPath == <<>>

\* pathname.split('/o/')[1]
SplitO(pathname) ==
    LET pat == <<SLASH, "o", SLASH>>
        first == Min({ i \in 1..Len(pathname) : OccursAt(pathname, i, pat) })
        rest == SubSeq(pathname, first + 3, Len(pathname))
        again == { i \in 1..Len(rest) : OccursAt(rest, i, pat) }
    IN  IF again = {} THEN rest ELSE SubSeq(rest, 1, Min(again) - 1)

\* pathname.split('/').slice(2).join('/') when split yields three parts or
\* more, null otherwise
AfterBucket(pathname) ==
    LET at == { i \in 1..Len(pathname) : pathname[i] = SLASH }
        second == Min(at \ {Min(at)})
    IN  IF Cardinality(at) >= 2
        THEN [found |-> TRUE,
              rest |-> SubSeq(pathname, second + 1, Len(pathname))]
        ELSE [found |-> FALSE, rest |-> <<>>]

\* extractStoragePath
extractStoragePath(url) ==
    IF url.kind = "invalid" THEN NoPath
    ELSE IF Contains(url.pathname, <<SLASH, "o", SLASH>>)
    THEN LET encodedPath == SplitO(url.pathname)
         IN  IF DecodeThrows(encodedPath) THEN NoPath
             ELSE DecodeURIComponent(encodedPath)
    ELSE LET parts == AfterBucket(url.pathname)
         IN  IF ~parts.found \/ DecodeThrows(parts.rest) THEN NoPath
             ELSE DecodeURIComponent(parts.rest)

\* the records of a deleted conversation: message.attachments
Documents ==
    { <<DownloadUrl(OwnAttachment), SignedUrl(OwnGenerated)>>,
      <<SignedUrl(OwnNested)>>,
      <<SignedUrl(ForeignAttachment)>>,
      <<NoUrl, InvalidUrl, BadEscapeUrl>>,
      <<>> }

Snapshots == UNION { [1..n -> Documents] : n \in 0..MaxMessages }

\* message.attachments.forEach: the paths one message adds
RECURSIVE MessagePaths(_)
MessagePaths(atts) ==
    IF atts = <<>> THEN <<>>
    ELSE (IF Head(atts).kind # "absent"
             /\ extractStoragePath(Head(atts)) # NoPath
          THEN <<extractStoragePath(Head(atts))>>
          ELSE <<>>)
         \o MessagePaths(Tail(atts))

\* messagesSnapshot.forEach: storagePathsToDelete
RECURSIVE CollectPaths(_)
CollectPaths(docs) ==
    IF docs = <<>> THEN <<>>
    ELSE MessagePaths(Head(docs)) \o CollectPaths(Tail(docs))

CleanupInit ==
    /\ pc = "deleted"
    /\ TurnIdle
    /\ connected = TRUE
    /\ ClientIdle
    /\ TmpIdle
    /\ userId = "u1"
    /\ snapshot \in Snapshots
    /\ storagePathsToDelete = <<>>
    /\ storageDeletes = <<>>
    /\ recordDeletes = <<>>

\* onChatDeleted up to its await of Promise.all: the messages are read, the
\* paths collected and every deletion started
StartSweep ==
    /\ pc = "deleted"
    /\ IF snapshot = <<>>
       THEN /\ pc' = "returned"
            /\ UNCHANGED <<storagePathsToDelete, storageDeletes,
                           recordDeletes>>
       ELSE /\ storagePathsToDelete' = CollectPaths(snapshot)
            /\ storageDeletes' =
                  [i \in 1..Len(storagePathsToDelete') |->
                      [path |-> storagePathsToDelete'[i],
                       result |-> "pending"]]
            /\ recordDeletes' = [j \in 1..Len(snapshot) |-> "pending"]
            /\ pc' = "sweeping"
    /\ UNCHANGED <<turnVars, connected, clientVars, tmpVars, userId, snapshot>>

\* messagesRef.get() rejects and the handler with it
ReadFails ==
    /\ pc = "deleted"
    /\ pc' = "unread"
    /\ UNCHANGED <<turnVars, connected, clientVars, tmpVars, cleanupVars>>

\* Promise.all after one more promise settled: it rejects with the first
\* doc.ref.delete() that rejects and resolves when all promises resolved
AfterSettle(storage, records) ==
    IF pc = "raised" \/ \E j \in 1..Len(records) : records[j] = "failed"
    THEN "raised"
    ELSE IF /\ \A i \in 1..Len(storage) : storage[i].result # "pending"
            /\ \A j \in 1..Len(records) : records[j] # "pending"
         THEN "returned"
         ELSE "sweeping"

\* storage.file(path).delete() settles; its catch absorbs a rejection and
\* logs it unless e.code is 404
StorageDeleteSettles ==
    /\ pc \in {"sweeping", "raised"}
    /\ \E i \in 1..Len(storageDeletes),
          result \in {"deleted", "missing", "failed"} :
          /\ storageDeletes[i].result = "pending"
          /\ storageDeletes' =
                [storageDeletes EXCEPT ![i].result = result]
          /\ pc' = AfterSettle(storageDeletes', recordDeletes)
    /\ UNCHANGED <<turnVars, connected, clientVars, tmpVars, userId, snapshot, storagePathsToDelete,
                   recordDeletes>>

\* doc.ref.delete() settles
RecordDeleteSettles ==
    /\ pc \in {"sweeping", "raised"}
    /\ \E j \in 1..Len(recordDeletes), result \in {"deleted", "failed"} :
          /\ recordDeletes[j] = "pending"
          /\ recordDeletes' = [recordDeletes EXCEPT ![j] = result]
          /\ pc' = AfterSettle(storageDeletes, recordDeletes')
    /\ UNCHANGED <<turnVars, connected, clientVars, tmpVars, userId, snapshot, storagePathsToDelete,
                   storageDeletes>>

CleanupNext ==
    \/ StartSweep
    \/ ReadFails
    \/ StorageDeleteSettles
    \/ RecordDeleteSettles

SpecCleanup == CleanupInit /\ [][CleanupNext]_vars

\* the object path a display URL of either convention was made for
ReferencedPath(url) ==
    CHOOSE p \in ObjectPaths : url \in {DownloadUrl(p), SignedUrl(p)}

IsReference(url) ==
    \E p \in ObjectPaths : url \in {DownloadUrl(p), SignedUrl(p)}

\* the object paths the records of a conversation refer to, in order
RECURSIVE References(_)
References(docs) ==
    IF docs = <<>> THEN <<>>
    ELSE LET atts == Head(docs)
             refs == SelectSeq(atts, IsReference)
         IN  [i \in 1..Len(refs) |-> ReferencedPath(refs[i])]
             \o References(Tail(docs))

SweepStarted == pc \in {"sweeping", "raised", "returned"}

C22_FailureNeverAborts ==
    /\ pc # "raised"
    /\ (pc = "returned" /\ snapshot # <<>>) =>
          /\ Len(storageDeletes) = Len(storagePathsToDelete)
          /\ \A i \in 1..Len(storageDeletes) :
                 storageDeletes[i].result # "pending"
          /\ \A j \in 1..Len(recordDeletes) : recordDeletes[j] # "pending"

\* C27: every storage object onChatDeleted deletes for the document
\* users/{userId}/chats/{chatId} lies under users/{userId}/.
C27_DeletesStayInNamespace ==
    \A i \in 1..Len(storageDeletes) :
        LET path == storageDeletes[i].path
        IN  /\ Len(path) >= 4
            /\ SubSeq(path, 1, 4) = <<"users", SLASH, userId, SLASH>>

\* C23: once the client has disconnected in the middle of a stream the
\* handler writes no further event, and a turn does not end while the
\* dual-sink writes of an image are still awaited.
C23_NoEventAfterDisconnect ==
    /\ [][~connected => events' = events]_vars
    /\ [](pc = "finished" => ~pendingImage)

(***************************************************************************)
(* The input area: InputArea.tsx                                           *)
(***************************************************************************)
\* files selected in one session of the input area at most
MaxFiles == 3
\* calls of onSend at most
MaxSends == 2

\* the handles of the file with number f: the local preview made by
\* URL.createObjectURL, and what uploadAttachment resolves to
Preview(f) == <<"blob", f>>
Stored(f) == <<"download", f>>
FileUri(f) == <<"files", f>>
NoFileUri == <<>>

\* one element of newAttachments
NewAttachment(f) ==
    [file |-> f, storageUrl |-> Preview(f), fileUri |-> NoFileUri]

ClientInit ==
    /\ pc = "composing"
    /\ TurnIdle
    /\ CleanupIdle
    /\ connected = TRUE
    /\ ClientIdle
    /\ TmpIdle

\* handleInput
HandleInput ==
    /\ input = NoText
    /\ input' = <<"a">>
    /\ UNCHANGED <<pc, turnVars, cleanupVars, tmpVars, connected, uiAttachments,
                   uploadingIndexes, uploads, sends, isLoading, nextFile>>

\* the parent renders the input area with another isLoading
SetLoading ==
    /\ isLoading' = ~isLoading
    /\ UNCHANGED <<pc, turnVars, cleanupVars, tmpVars, connected, input,
                   uiAttachments, uploadingIndexes, uploads, sends, nextFile>>

\* handleFileSelect (and handleDrop) for k files: the attachments with their
\* previews are appended, their indexes marked as uploading and one
\* uploadAttachment call per file started
HandleFileSelect ==
    \E k \in 1..2 :
        LET startIndex == Len(uiAttachments)
            files == [i \in 1..k |-> nextFile + i]
        IN  /\ nextFile + k <= MaxFiles
            /\ uiAttachments' =
                  uiAttachments \o [i \in 1..k |-> NewAttachment(files[i])]
            /\ uploadingIndexes' =
                  uploadingIndexes \cup { startIndex + i - 1 : i \in 1..k }
            /\ uploads' = uploads \cup
                  { [file |-> files[i], attachmentIndex |-> startIndex + i - 1]
                      : i \in 1..k }
            /\ nextFile' = nextFile + k
            /\ UNCHANGED <<pc, turnVars, cleanupVars, tmpVars, connected, input, sends,
                           isLoading>>

\* uploadAttachment settles: on success the handles are stored at
\* attachmentIndex, and in every case the index leaves uploadingIndexes
AttachmentUploadSettles ==
    \E u \in uploads, ok \in BOOLEAN :
        /\ uiAttachments' =
              IF ok
              THEN [idx \in 1..Len(uiAttachments) |->
                       IF idx - 1 = u.attachmentIndex
                       THEN [uiAttachments[idx] EXCEPT
                                !.storageUrl = Stored(u.file),
                                !.fileUri = FileUri(u.file)]
                       ELSE uiAttachments[idx]]
              ELSE uiAttachments
        /\ uploadingIndexes' = uploadingIndexes \ {u.attachmentIndex}
        /\ uploads' = uploads \ {u}
        /\ UNCHANGED <<pc, turnVars, cleanupVars, tmpVars, connected, input, sends,
                       isLoading, nextFile>>

\* removeAttachment(index)
RemoveAttachment ==
    \E index \in 0..(Len(uiAttachments) - 1) :
        /\ uiAttachments' =
              [idx \in 1..(Len(uiAttachments) - 1) |->
                  IF idx - 1 < index THEN uiAttachments[idx]
                  ELSE uiAttachments[idx + 1]]
        /\ UNCHANGED <<pc, turnVars, cleanupVars, tmpVars, connected, input,
                       uploadingIndexes, uploads, sends, isLoading, nextFile>>

hasContent == Len(Trim(input)) > 0 \/ Len(uiAttachments) > 0
isUploading == uploadingIndexes # {}

\* handleSend: it returns at once without content or while isLoading
handleSend ==
    /\ ~((Trim(input) = NoText /\ Len(uiAttachments) = 0) \/ isLoading)
    /\ Len(sends) < MaxSends
    /\ sends' = Append(sends, [text |-> input, attachments |-> uiAttachments,
                               uploading |-> uploadingIndexes])
    /\ input' = NoText
    /\ uiAttachments' = <<>>
    /\ UNCHANGED <<pc, turnVars, cleanupVars, tmpVars, connected, uploadingIndexes,
                   uploads, isLoading, nextFile>>

\* the send button: disabled={!hasContent || isLoading || isUploading}
ClickSend == hasContent /\ ~isLoading /\ ~isUploading /\ handleSend

\* handleKeyDown for the Enter key: handleSend unless the shift key is held
\* or the window is narrow
PressEnter ==
    \E shiftKey \in BOOLEAN, isMobile \in BOOLEAN :
        ~shiftKey /\ ~isMobile /\ handleSend

ClientNext ==
    \/ HandleInput
    \/ SetLoading
    \/ HandleFileSelect
    \/ AttachmentUploadSettles
    \/ RemoveAttachment
    \/ ClickSend
    \/ PressEnter

SpecClient == ClientInit /\ [][ClientNext]_vars

\* C24: no message is sent while an attachment upload is in progress,
\* whether sending is triggered by the send button or by the Enter key, and
\* every upload that settled has removed its index: when no upload is in
\* flight uploadingIndexes is empty and sending is possible again.
C24_NoSendWhileUploading ==
    /\ \A i \in 1..Len(sends) : sends[i].uploading = {}
    /\ (uploads = {} => uploadingIndexes = {})

\* the handles an attachment holds are its preview or those of its own file
OwnHandles(att) ==
    /\ att.storageUrl \in {Preview(att.file), Stored(att.file)}
    /\ att.fileUri \in {NoFileUri, FileUri(att.file)}

\* C25: under every interleaving of file selection, attachment removal and
\* upload completion, the display and continuity handles of a successful
\* upload are stored on the attachment the upload was started for and on no
\* other attachment, in the input area and in what is sent.
C25_HandlesOnOwnAttachment ==
    /\ \A i \in 1..Len(uiAttachments) : OwnHandles(uiAttachments[i])
    /\ \A s \in 1..Len(sends) :
          \A i \in 1..Len(sends[s].attachments) :
              OwnHandles(sends[s].attachments[i])

(***************************************************************************)
(* Temporary files of one function instance: dualUpload and unifiedUpload  *)
(***************************************************************************)
\* milliseconds the clock advances at most
MaxClock == 1

\* the uploads one instance handles at the same time
Requests == {1, 2}
Sinks == {"storage", "fileApi"}

\* what a file holds and what a sink has read: the buffer of upload r, no
\* such file, or nothing read yet
Buffer(r) == <<"buffer", r>>
NoFile == <<"ENOENT", 0>>
Pending == <<"pending", 0>>

\* tempPath of dualUpload, `/tmp/generated_${Date.now()}.${extension}`, and of
\* unifiedUpload, `/tmp/${timestamp}_${fileName}`
TempPath(kind, timestamp, name) ==
    IF kind = "dualUpload" THEN <<"/tmp/", "generated_", timestamp, ".", name>>
    ELSE <<"/tmp/", timestamp, "_", name>>

\* the extension of the image of a dualUpload or the fileName of the body of
\* a unifiedUpload
UploadNames(kind) ==
    IF kind = "dualUpload" THEN {"png", "jpeg"} ELSE {"a.png", "b.png"}

\* the content of the file at path
FileAt(path) ==
    IF \E f \in tmpFiles : f.path = path
    THEN (CHOOSE f \in tmpFiles : f.path = path).data
    ELSE NoFile

TempInit ==
    /\ pc = "serving"
    /\ TurnIdle
    /\ CleanupIdle
    /\ connected = TRUE
    /\ ClientIdle
    /\ now = 0
    /\ tmpFiles = {}
    /\ \E kinds \in [Requests -> {"dualUpload", "unifiedUpload"}] :
          ops \in { o \in [Requests ->
                        [kind : {"dualUpload", "unifiedUpload"},
                         name : {"png", "jpeg", "a.png", "b.png"},
                         pc : {"idle"}, path : {<<>>},
                         reads : {[s \in Sinks |-> Pending]}]] :
                    \A r \in Requests :
                        /\ o[r].kind = kinds[r]
                        /\ o[r].name \in UploadNames(kinds[r]) }

\* Date.now() moves on
Tick ==
    /\ now < MaxClock
    /\ now' = now + 1
    /\ UNCHANGED <<pc, turnVars, cleanupVars, connected, clientVars, tmpFiles,
                   ops>>

\* the synchronous head of an upload: tempPath is made from Date.now() and
\* fs.writeFileSync(tempPath, buffer) creates or replaces the file
StartUpload ==
    \E r \in Requests :
        LET tempPath == TempPath(ops[r].kind, now, ops[r].name)
        IN  /\ ops[r].pc = "idle"
            /\ tmpFiles' = { f \in tmpFiles : f.path # tempPath }
                              \cup {[path |-> tempPath, data |-> Buffer(r)]}
            /\ ops' = [ops EXCEPT ![r].pc = "uploading",
                                  ![r].path = tempPath]
            /\ UNCHANGED <<pc, turnVars, cleanupVars, connected, clientVars,
                           now>>

\* bucket.upload(tempPath, ...) or ai.files.upload({file: tempPath, ...})
\* reads the file that is at tempPath by then
SinkReads ==
    \E r \in Requests, s \in Sinks :
        /\ ops[r].pc \in {"uploading", "failed"}
        /\ ops[r].reads[s] = Pending
        /\ ops' = [ops EXCEPT ![r].reads[s] = FileAt(ops[r].path),
                              ![r].pc = IF FileAt(ops[r].path) = NoFile
                                        THEN "failed" ELSE @]
        /\ UNCHANGED <<pc, turnVars, cleanupVars, connected, clientVars, now,
                       tmpFiles>>

\* Promise.all resolved: fs.unlinkSync(tempPath), which throws when the file
\* is gone
FinishUpload ==
    \E r \in Requests :
        /\ ops[r].pc = "uploading"
        /\ \A s \in Sinks : ops[r].reads[s] # Pending
        /\ tmpFiles' = { f \in tmpFiles : f.path # ops[r].path }
        /\ ops' = [ops EXCEPT ![r].pc = IF FileAt(ops[r].path) = NoFile
                                        THEN "failed" ELSE "done"]
        /\ UNCHANGED <<pc, turnVars, cleanupVars, connected, clientVars, now>>

TempNext == Tick \/ StartUpload \/ SinkReads \/ FinishUpload

SpecTemp == TempInit /\ [][TempNext]_vars

\* C26: uploads handled concurrently by one instance do not interfere
\* through their temporary files: while an upload is in flight the file at
\* its tempPath holds its own buffer, and what its sinks read is that
\* buffer, also when both uploads start in the same millisecond with the
\* same extension or name.
C26_TempFilesArePrivate ==
    \A r \in Requests :
        /\ ops[r].pc = "uploading" => FileAt(ops[r].path) = Buffer(r)
        /\ \A s \in Sinks : ops[r].reads[s] \in {Pending, Buffer(r)}

====
